---- MODULE Spec2Model ----
(***************************************************************************)
(* The two event systems of cppdmeta:                                      *)
(*   runtime.cpp  event_system over std::unordered_map<std::string, ...>,  *)
(*                every lookup checked by assert at call time;             *)
(*   hana.cpp     event_system<Events...> over hana::map, identifiers      *)
(*                checked by static_assert, plus the text index dynamic_   *)
(*                of pointers into map_ for trigger(std::string const&).   *)
(* Each file is a program of its own (each has a main).  A callback is an  *)
(* opaque std::function<void()>; invoking it is recorded in the program's  *)
(* log.  Callbacks do not call back into the registry (none in the source  *)
(* does).  assert is compiled in (no NDEBUG): a failed assert aborts the   *)
(* program after writing its message.                                      *)
(* main's registry of hana.cpp is built by make_event_system either in     *)
(* place or by a move from the returned object, as the build chooses; a    *)
(* read through a pointer into a destroyed object is undefined and has     *)
(* every outcome such a build shows.                                       *)
(***************************************************************************)
EXTENDS Integers, Sequences, FiniteSets, TLC

VARIABLES
  prog,        \* which program runs: "runtime", "hana", or "pair" (both, in lockstep)
  events,      \* runtime.cpp: the initializer_list given to the constructor
  rt_map_,     \* runtime.cpp: event_system::map_
  rt_pc,       \* runtime.cpp: "idle" | "trigger" | "aborted"
  rt_frame,    \* runtime.cpp: the running trigger's iterator and loop position
  rt_log,      \* runtime.cpp: callback invocations so far
  rt_diag,     \* runtime.cpp: message of the failed assert, "" if none
  rt_calls,    \* runtime.cpp: history of the on/trigger calls made
  hana_map_,   \* hana.cpp: event_system::map_ of each registry object
  dynamic_,    \* hana.cpp: event_system::dynamic_ of each registry object
  hana_pc,     \* hana.cpp: "idle" | "trigger" | "aborted" | "crashed"
  hana_frame,  \* hana.cpp: the running trigger's vector and loop position
  hana_log,    \* hana.cpp: callback invocations so far
  hana_diag,   \* hana.cpp: message of the failed assert, "" if none
  hana_calls   \* hana.cpp: history of the on/trigger calls made

rt_vars   == <<events, rt_map_, rt_pc, rt_frame, rt_log, rt_diag, rt_calls>>
hana_vars == <<hana_map_, dynamic_, hana_pc, hana_frame, hana_log, hana_diag, hana_calls>>
vars      == <<prog, rt_vars, hana_vars>>

(***************************************************************************)
(* Bounds and inputs                                                       *)
(***************************************************************************)
\* on/trigger calls made by one program run
MaxCalls == 4

\* the closures a caller may pass to on
Callbacks == {"c1", "c2"}

\* the std::string values a caller may pass to on/trigger of runtime.cpp and
\* to trigger(std::string const&) of hana.cpp: two names registries are built
\* from (main's third, "baz", behaves as they do) and one that none is
Texts == {"foo", "bar", "unknown"}

\* the initializer lists a runtime.cpp registry is constructed from: distinct
\* names, and a list that repeats a name
EventLists == {<<"foo", "bar">>, <<"foo", "foo">>}

\* hana::string<'f','o','o'> and hana::string<'b','a','r'>: compile-time
\* character packs
Foo == <<"f", "o", "o">>
Bar == <<"b", "a", "r">>

\* the parameter pack Events... of event_system<Events...>
Events == <<Foo, Bar>>

\* the registry object `events` of hana.cpp's main
main_events == 1

AssertOn      == "trying to add a callback to an unknown event"
AssertTrigger == "trying to trigger an unknown event"

\* what a build that checks addresses reports when a destroyed object is read
UseAfterScope == "stack-use-after-scope"

\* what terminate reports when an empty std::function is called
BadFunctionCall == "bad_function_call"

(***************************************************************************)
(* Library operations used by both files                                   *)
(***************************************************************************)
ToSet(s) == {s[i] : i \in 1..Len(s)}

\* hana::string::c_str(): the characters of the pack as one text
RECURSIVE c_str(_)
c_str(s) == IF s = <<>> THEN "" ELSE Head(s) \o c_str(Tail(s))

\* an empty unordered_map
EmptyMap == [k \in {} |-> <<>>]

\* unordered_map::insert: adds the pair unless the key is already present
insert(m, k, v) ==
  IF k \in DOMAIN m THEN m
  ELSE [x \in DOMAIN m \cup {k} |-> IF x = k THEN v ELSE m[x]]

\* unordered_map::find(k) != end()
found(m, k) == k \in DOMAIN m

\* std::vector::push_back
push_back(vec, x) == Append(vec, x)

\* one callback() of a range-for over a vector: what the log gains
Invocation(vec, it, key, call) ==
  [cb |-> vec[it], key |-> key, pos |-> it, call |-> call]

NoFrame == [key |-> "", it |-> 0, end |-> 0]

(***************************************************************************)
(* runtime.cpp                                                             *)
(***************************************************************************)
\* event_system(std::initializer_list<std::string>): insert {event, {}} for each
RECURSIVE rt_event_system(_)
rt_event_system(evs) ==
  IF evs = <<>> THEN EmptyMap
  ELSE insert(rt_event_system(SubSeq(evs, 1, Len(evs) - 1)), evs[Len(evs)], <<>>)

\* mutation: map_[event].push_back(callback), no lookup and no assert
rt_on_subscript(event, callback) ==
  /\ rt_pc = "idle"
  /\ Len(rt_calls) < MaxCalls
  /\ rt_calls' = Append(rt_calls, [op |-> "on", ev |-> event, cb |-> callback, path |-> "text"])
  /\ rt_map_' = [x \in DOMAIN rt_map_ \cup {event} |->
                   IF x = event
                   THEN push_back(IF found(rt_map_, x) THEN rt_map_[x] ELSE <<>>, callback)
                   ELSE rt_map_[x]]
  /\ UNCHANGED <<events, rt_pc, rt_diag, rt_frame, rt_log>>

\* mutation: callbacks->second = {callback} instead of push_back
rt_on_assign(event, callback) ==
  /\ rt_pc = "idle"
  /\ Len(rt_calls) < MaxCalls
  /\ rt_calls' = Append(rt_calls, [op |-> "on", ev |-> event, cb |-> callback, path |-> "text"])
  /\ IF found(rt_map_, event)
     THEN /\ rt_map_' = [rt_map_ EXCEPT ![event] = <<callback>>]
          /\ UNCHANGED <<rt_pc, rt_diag>>
     ELSE /\ rt_pc' = "aborted"
          /\ rt_diag' = AssertOn
          /\ UNCHANGED rt_map_
  /\ UNCHANGED <<events, rt_frame, rt_log>>

\* event_system::on(event, callback)
rt_on(event, callback) ==
  /\ rt_pc = "idle"
  /\ Len(rt_calls) < MaxCalls
  /\ rt_calls' = Append(rt_calls, [op |-> "on", ev |-> event, cb |-> callback, path |-> "text"])
  /\ IF found(rt_map_, event)
     THEN /\ rt_map_' = [rt_map_ EXCEPT ![event] = push_back(@, callback)]
          /\ UNCHANGED <<rt_pc, rt_diag>>
     ELSE /\ rt_pc' = "aborted"
          /\ rt_diag' = AssertOn
          /\ UNCHANGED rt_map_
  /\ UNCHANGED <<events, rt_frame, rt_log>>

\* mutation: an unknown event is skipped instead of asserted on
rt_trigger_ignore(event) ==
  /\ rt_pc = "idle"
  /\ Len(rt_calls) < MaxCalls
  /\ rt_calls' = Append(rt_calls, [op |-> "trigger", ev |-> event, cb |-> "", path |-> "text"])
  /\ IF found(rt_map_, event)
     THEN /\ rt_pc' = "trigger"
          /\ rt_frame' = [key |-> event, it |-> 1, end |-> Len(rt_map_[event])]
     ELSE UNCHANGED <<rt_pc, rt_frame>>
  /\ UNCHANGED <<events, rt_map_, rt_log, rt_diag>>

\* mutation: for (auto& callback : map_[event]), which inserts a missing key
rt_trigger_subscript(event) ==
  /\ rt_pc = "idle"
  /\ Len(rt_calls) < MaxCalls
  /\ rt_calls' = Append(rt_calls, [op |-> "trigger", ev |-> event, cb |-> "", path |-> "text"])
  /\ rt_map_' = insert(rt_map_, event, <<>>)
  /\ rt_pc' = "trigger"
  /\ rt_frame' = [key |-> event, it |-> 1, end |-> Len(rt_map_'[event])]
  /\ UNCHANGED <<events, rt_log, rt_diag>>

\* event_system::trigger(event): the lookup, the assert, and the range-for's
\* begin()/end()
rt_trigger(event) ==
  /\ rt_pc = "idle"
  /\ Len(rt_calls) < MaxCalls
  /\ rt_calls' = Append(rt_calls, [op |-> "trigger", ev |-> event, cb |-> "", path |-> "text"])
  /\ IF found(rt_map_, event)
     THEN /\ rt_pc' = "trigger"
          /\ rt_frame' = [key |-> event, it |-> 1, end |-> Len(rt_map_[event])]
          /\ UNCHANGED rt_diag
     ELSE /\ rt_pc' = "aborted"
          /\ rt_diag' = AssertTrigger
          /\ UNCHANGED rt_frame
  /\ UNCHANGED <<events, rt_map_, rt_log>>

\* mutation: the iteration passes over the callback without calling it
rt_callback_silent ==
  /\ rt_pc = "trigger"
  /\ rt_frame.it <= rt_frame.end
  /\ rt_frame' = [rt_frame EXCEPT !.it = @ + 1]
  /\ UNCHANGED <<events, rt_map_, rt_pc, rt_log, rt_diag, rt_calls>>

\* one iteration of `for (auto& callback : callbacks->second) callback();`
rt_callback ==
  /\ rt_pc = "trigger"
  /\ rt_frame.it <= rt_frame.end
  /\ rt_log' = Append(rt_log,
         Invocation(rt_map_[rt_frame.key], rt_frame.it, rt_frame.key, Len(rt_calls)))
  /\ rt_frame' = [rt_frame EXCEPT !.it = @ + 1]
  /\ UNCHANGED <<events, rt_map_, rt_pc, rt_diag, rt_calls>>

\* the loop is over: trigger returns
rt_return ==
  /\ rt_pc = "trigger"
  /\ rt_frame.it > rt_frame.end
  /\ rt_pc' = "idle"
  /\ rt_frame' = NoFrame
  /\ UNCHANGED <<events, rt_map_, rt_log, rt_diag, rt_calls>>

\* mutation: the constructor asserts that insert added the name
RtInit_reject ==
  /\ rt_map_ = rt_event_system(events)
  /\ rt_pc = IF Cardinality(ToSet(events)) < Len(events) THEN "aborted" ELSE "idle"
  /\ rt_frame = NoFrame
  /\ rt_log = <<>>
  /\ rt_diag = IF Cardinality(ToSet(events)) < Len(events) THEN "duplicate event" ELSE ""
  /\ rt_calls = <<>>

RtInit ==
  /\ rt_map_ = rt_event_system(events)
  /\ rt_pc = "idle"
  /\ rt_frame = NoFrame
  /\ rt_log = <<>>
  /\ rt_diag = ""
  /\ rt_calls = <<>>

(***************************************************************************)
(* hana.cpp                                                                *)
(***************************************************************************)
\* "unknown"_s, the identifier of the commented-out calls in main
Unknown == <<"u", "n", "k", "n", "o", "w", "n">>

\* the identifiers a caller may write in on(e, ...) and trigger(e)
Identifiers == ToSet(Events) \cup {Unknown}

\* hana::contains(map_, e), the condition of both static_asserts
contains(m, e) == e \in DOMAIN m

\* &map_[event] taken inside registry object `this`
AddressOf(this, event) == [obj |-> this, key |-> event]

\* *p for a std::vector<Callback>* p
Deref(p) == hana_map_[p.obj][p.key]

\* p points into a registry object that has been destroyed
Dangling(p) == p.obj \notin DOMAIN hana_map_

NullPtr == [obj |-> 0, key |-> <<>>]
HanaNoFrame == [ptr |-> NullPtr, it |-> 0, end |-> 0]

\* a default-constructed hana::map<hana::pair<Events, std::vector<Callback>>...>
hana_map_default == [e \in ToSet(Events) |-> <<>>]

\* event_system(): for_each(keys(map_)) insert {event.c_str(), &map_[event]}
RECURSIVE hana_event_system(_, _)
hana_event_system(this, keys) ==
  IF keys = <<>> THEN EmptyMap
  ELSE insert(hana_event_system(this, SubSeq(keys, 1, Len(keys) - 1)),
              c_str(keys[Len(keys)]), AddressOf(this, keys[Len(keys)]))

\* mutation: on without its static_assert
hana_on_unchecked(e, callback) ==
  /\ hana_pc = "idle"
  /\ Len(hana_calls) < MaxCalls
  /\ hana_calls' = Append(hana_calls, [op |-> "on", ev |-> c_str(e), cb |-> callback, path |-> "id"])
  /\ hana_map_' = [hana_map_ EXCEPT ![main_events] =
                     [x \in DOMAIN @ \cup {e} |->
                        push_back(IF x \in DOMAIN @ THEN @[x] ELSE <<>>, callback)]]
  /\ UNCHANGED <<dynamic_, hana_pc, hana_frame, hana_log, hana_diag>>

\* event_system::on(Event e, F callback)
hana_on(e, callback) ==
  /\ hana_pc = "idle"
  /\ Len(hana_calls) < MaxCalls
  /\ contains(hana_map_[main_events], e)           \* static_assert
  /\ hana_calls' = Append(hana_calls, [op |-> "on", ev |-> c_str(e), cb |-> callback, path |-> "id"])
  /\ hana_map_' = [hana_map_ EXCEPT ![main_events][e] = push_back(@, callback)]
  /\ UNCHANGED <<dynamic_, hana_pc, hana_frame, hana_log, hana_diag>>

\* event_system::trigger(Event e) const
hana_trigger(e) ==
  /\ hana_pc = "idle"
  /\ Len(hana_calls) < MaxCalls
  /\ contains(hana_map_[main_events], e)           \* static_assert
  /\ hana_calls' = Append(hana_calls, [op |-> "trigger", ev |-> c_str(e), cb |-> "", path |-> "id"])
  /\ hana_pc' = "trigger"
  /\ hana_frame' = [ptr |-> AddressOf(main_events, e), it |-> 1,
                    end |-> Len(hana_map_[main_events][e])]
  /\ UNCHANGED <<hana_map_, dynamic_, hana_log, hana_diag>>

\* the callbacks a registry holds, in any of its lists
Registered(m) == UNION {ToSet(m[e]) : e \in DOMAIN m}

\* the length of the longest vector any registry object holds
LongestList ==
  LET lens == {Len(hana_map_[o][e]) : o \in DOMAIN hana_map_, e \in ToSet(Events)}
  IN  CHOOSE n \in lens : \A k \in lens : k <= n

\* how many elements a read of a destroyed vector's storage may show: none,
\* or up to as many as the longest vector now living holds (whose storage it
\* may have become), or one at least, of words that are no vector's
StaleLengths == 0..(IF LongestList = 0 THEN 1 ELSE LongestList)

\* `for (auto& callback : *callbacks->second)` reaching begin()/end() through
\* a text-index entry. Reading through an entry whose registry object has been
\* destroyed is undefined. The build reads the dead vector's storage either
\* as it was left (moved-from: begin() = end(), the loop is not entered) or as
\* what has since been put there (begin() # end(): the loop is entered, over
\* as many elements as the words now there say), or it stops the program at
\* the read.
hana_range_for(ptr) ==
  IF Dangling(ptr)
  THEN \/ /\ hana_pc' = "trigger"
          /\ \E n \in StaleLengths : hana_frame' = [ptr |-> ptr, it |-> 1, end |-> n]
          /\ UNCHANGED hana_diag
       \/ /\ hana_pc' = "crashed"
          /\ hana_diag' = UseAfterScope
          /\ UNCHANGED hana_frame
  ELSE /\ hana_pc' = "trigger"
       /\ hana_frame' = [ptr |-> ptr, it |-> 1, end |-> Len(Deref(ptr))]
       /\ UNCHANGED hana_diag

\* mutation: an unknown text is skipped instead of asserted on
hana_trigger_text_ignore(event) ==
  /\ hana_pc = "idle"
  /\ Len(hana_calls) < MaxCalls
  /\ hana_calls' = Append(hana_calls, [op |-> "trigger", ev |-> event, cb |-> "", path |-> "text"])
  /\ IF found(dynamic_[main_events], event)
     THEN hana_range_for(dynamic_[main_events][event])
     ELSE UNCHANGED <<hana_pc, hana_frame, hana_diag>>
  /\ UNCHANGED <<hana_map_, dynamic_, hana_log>>

\* event_system::trigger(std::string const& event)
hana_trigger_text(event) ==
  /\ hana_pc = "idle"
  /\ Len(hana_calls) < MaxCalls
  /\ hana_calls' = Append(hana_calls, [op |-> "trigger", ev |-> event, cb |-> "", path |-> "text"])
  /\ IF found(dynamic_[main_events], event)
     THEN hana_range_for(dynamic_[main_events][event])
     ELSE /\ hana_pc' = "aborted"
          /\ hana_diag' = AssertTrigger
          /\ UNCHANGED hana_frame
  /\ UNCHANGED <<hana_map_, dynamic_, hana_log>>

\* one iteration of either trigger's `for (auto& callback : ...) callback();`
\* In the walk of a destroyed vector `callback` is whatever the storage holds
\* now, and calling it is undefined: what runs is some callback registered in
\* this registry, on whatever event, after which the loop goes on; or the
\* program is ended by the bad_function_call nobody catches or by a fault
\* with no message.
hana_callback ==
  /\ hana_pc = "trigger"
  /\ hana_frame.it <= hana_frame.end
  /\ IF Dangling(hana_frame.ptr)
     THEN \/ /\ \E c \in Registered(hana_map_[main_events]) :
                  hana_log' = Append(hana_log,
                      [cb |-> c, key |-> c_str(hana_frame.ptr.key), pos |-> hana_frame.it,
                       call |-> Len(hana_calls)])
             /\ hana_frame' = [hana_frame EXCEPT !.it = @ + 1]
             /\ UNCHANGED <<hana_pc, hana_diag>>
          \/ /\ hana_pc' = "crashed"
             /\ hana_diag' \in {BadFunctionCall, ""}
             /\ hana_frame' = HanaNoFrame
             /\ UNCHANGED hana_log
     ELSE /\ hana_log' = Append(hana_log,
                 Invocation(Deref(hana_frame.ptr), hana_frame.it, c_str(hana_frame.ptr.key),
                            Len(hana_calls)))
          /\ hana_frame' = [hana_frame EXCEPT !.it = @ + 1]
          /\ UNCHANGED <<hana_pc, hana_diag>>
  /\ UNCHANGED <<hana_map_, dynamic_, hana_calls>>

\* mutation: the vector that was walked is cleared before returning
hana_return_clear ==
  /\ hana_pc = "trigger"
  /\ hana_frame.it > hana_frame.end
  /\ hana_pc' = "idle"
  /\ hana_frame' = HanaNoFrame
  /\ hana_map_' = [hana_map_ EXCEPT ![hana_frame.ptr.obj][hana_frame.ptr.key] = <<>>]
  /\ UNCHANGED <<dynamic_, hana_log, hana_diag, hana_calls>>

\* the loop is over: trigger returns
hana_return ==
  /\ hana_pc = "trigger"
  /\ hana_frame.it > hana_frame.end
  /\ hana_pc' = "idle"
  /\ hana_frame' = HanaNoFrame
  /\ UNCHANGED <<hana_map_, dynamic_, hana_log, hana_diag, hana_calls>>

\* the object make_event_system returns, when the build does not construct
\* it in place as main's `events`
returned_events == 3

\* auto events = make_event_system("foo"_s, "bar"_s). The build may elide the
\* move of the returned object (C++17 must, C++14 may): the constructor then
\* runs on `events` itself. Otherwise it runs on the returned object, `events`
\* is move-constructed from it member by member (the empty vectors, and the
\* index with the pointer values it holds) and the returned object is
\* destroyed at the end of the declaration.
HanaInit ==
  /\ hana_map_ = [o \in {main_events} |-> hana_map_default]
  /\ \E built \in {main_events, returned_events} :
        dynamic_ = [o \in {main_events} |-> hana_event_system(built, Events)]
  /\ hana_pc = "idle"
  /\ hana_frame = HanaNoFrame
  /\ hana_log = <<>>
  /\ hana_diag = ""
  /\ hana_calls = <<>>

(***************************************************************************)
(* The programs: a caller making on/trigger calls on its registry          *)
(***************************************************************************)
MainEvents == <<"foo", "bar">>

Init ==
  /\ \/ prog = "runtime" /\ events \in EventLists
     \/ prog = "hana" /\ events = MainEvents
  /\ RtInit
  /\ HanaInit

RtOn ==
  /\ prog = "runtime"
  /\ \E event \in Texts, callback \in Callbacks : rt_on(event, callback)
  /\ UNCHANGED <<prog, hana_vars>>

RtTrigger ==
  /\ prog = "runtime"
  /\ \E event \in Texts : rt_trigger(event)
  /\ UNCHANGED <<prog, hana_vars>>

RtCallback == prog = "runtime" /\ rt_callback /\ UNCHANGED <<prog, hana_vars>>

RtReturn == prog = "runtime" /\ rt_return /\ UNCHANGED <<prog, hana_vars>>

HanaOn ==
  /\ prog = "hana"
  /\ \E e \in Identifiers, callback \in Callbacks : hana_on(e, callback)
  /\ UNCHANGED <<prog, rt_vars>>

HanaTrigger ==
  /\ prog = "hana"
  /\ \E e \in Identifiers : hana_trigger(e)
  /\ UNCHANGED <<prog, rt_vars>>

HanaTriggerText ==
  /\ prog = "hana"
  /\ \E event \in Texts : hana_trigger_text(event)
  /\ UNCHANGED <<prog, rt_vars>>

HanaCallback == prog = "hana" /\ hana_callback /\ UNCHANGED <<prog, rt_vars>>

HanaReturn == prog = "hana" /\ hana_return /\ UNCHANGED <<prog, rt_vars>>

Next ==
  \/ RtOn \/ RtTrigger \/ RtCallback \/ RtReturn
  \/ HanaOn \/ HanaTrigger \/ HanaTriggerText \/ HanaCallback \/ HanaReturn

Spec == Init /\ [][Next]_vars

\* The thread that called trigger keeps executing it: an iteration whose
\* callback returns is followed by the next one or by the return.
SpecLive ==
  /\ Spec
  /\ WF_vars(RtCallback) /\ WF_vars(RtReturn)
  /\ WF_vars(HanaCallback) /\ WF_vars(HanaReturn)

\* a second registry object, copy-constructed from main's `events`
copy_events == 2

\* event_system(event_system const&), implicitly defined: memberwise copy.
\* map_ is copied vector by vector; dynamic_ is copied entry by entry, each
\* entry the pointer value the source holds.
hana_copy(this, other) ==
  /\ hana_pc = "idle"
  /\ other \in DOMAIN hana_map_
  /\ this \notin DOMAIN hana_map_
  /\ hana_map_' = [o \in DOMAIN hana_map_ \cup {this} |->
                     IF o = this THEN hana_map_[other] ELSE hana_map_[o]]
  /\ dynamic_' = [o \in DOMAIN dynamic_ \cup {this} |->
                    IF o = this THEN dynamic_[other] ELSE dynamic_[o]]
  /\ UNCHANGED <<hana_pc, hana_frame, hana_log, hana_diag, hana_calls>>

HanaCopy ==
  /\ prog = "hana"
  /\ hana_copy(copy_events, main_events)
  /\ UNCHANGED <<prog, rt_vars>>

\* a caller that may also copy its registry
SpecCopy == Init /\ [][Next \/ HanaCopy]_vars

(***************************************************************************)
(* Both registries over the same events, driven by the same calls on known *)
(* events; the hana registry through either of its trigger overloads       *)
(***************************************************************************)
InitPair ==
  /\ prog = "pair"
  /\ events = MainEvents
  /\ RtInit
  /\ HanaInit

\* hana.cpp's side of a call made on both registries: the call, or nothing
\* when that program has been ended by an earlier call
PairHana(call) == call \/ (hana_pc = "crashed" /\ UNCHANGED hana_vars)

PairOn ==
  /\ prog = "pair"
  /\ hana_pc \in {"idle", "crashed"}
  /\ \E e \in ToSet(Events), callback \in Callbacks :
        rt_on(c_str(e), callback) /\ PairHana(hana_on(e, callback))
  /\ UNCHANGED prog

PairTrigger ==
  /\ prog = "pair"
  /\ hana_pc \in {"idle", "crashed"}
  /\ \E e \in ToSet(Events) : rt_trigger(c_str(e)) /\ PairHana(hana_trigger(e))
  /\ UNCHANGED prog

PairTriggerText ==
  /\ prog = "pair"
  /\ hana_pc \in {"idle", "crashed"}
  /\ \E e \in ToSet(Events) : rt_trigger(c_str(e)) /\ PairHana(hana_trigger_text(c_str(e)))
  /\ UNCHANGED prog

\* each program goes on with the loop of its own trigger
PairCallback ==
  /\ prog = "pair"
  /\ ENABLED rt_callback \/ ENABLED hana_callback
  /\ IF ENABLED rt_callback THEN rt_callback ELSE UNCHANGED rt_vars
  /\ IF ENABLED hana_callback THEN hana_callback ELSE UNCHANGED hana_vars
  /\ UNCHANGED prog

\* each program returns from its own trigger when its loop is over
PairReturn ==
  /\ prog = "pair"
  /\ ENABLED rt_return \/ ENABLED hana_return
  /\ IF ENABLED rt_return THEN rt_return ELSE UNCHANGED rt_vars
  /\ IF ENABLED hana_return THEN hana_return ELSE UNCHANGED hana_vars
  /\ UNCHANGED prog

NextPair == PairOn \/ PairTrigger \/ PairTriggerText \/ PairCallback \/ PairReturn

SpecPair == InitPair /\ [][NextPair]_vars

(***************************************************************************)
(* Reading a program's state and history                                   *)
(***************************************************************************)
Progs == {"runtime", "hana"}

Pc(p)    == IF p = "runtime" THEN rt_pc ELSE hana_pc
Log(p)   == IF p = "runtime" THEN rt_log ELSE hana_log
Calls(p) == IF p = "runtime" THEN rt_calls ELSE hana_calls
Diag(p)  == IF p = "runtime" THEN rt_diag ELSE hana_diag

\* the event names the registry was constructed with
Known(p) == IF p = "runtime" THEN ToSet(events) ELSE {c_str(e) : e \in ToSet(Events)}

\* the identifier whose text is t
KeyOf(t) == CHOOSE e \in ToSet(Events) : c_str(e) = t

\* the CallbackList the registry holds for the known event named t
List(p, t) == IF p = "runtime" THEN rt_map_[t] ELSE hana_map_[main_events][KeyOf(t)]

\* the callbacks passed to on(e, _) by calls a+1 .. b-1 of the history, in call order
OnCbs(calls, e, a, b) ==
  LET s == SelectSeq(SubSeq(calls, a + 1, b - 1), LAMBDA c : c.op = "on" /\ c.ev = e)
  IN  [i \in 1..Len(s) |-> s[i].cb]

\* the callbacks invoked by call j, in invocation order
Segment(log, j) ==
  LET s == SelectSeq(log, LAMBDA x : x.call = j)
  IN  [i \in 1..Len(s) |-> s[i].cb]

IsTrigger(p, j) == Calls(p)[j].op = "trigger" /\ Calls(p)[j].ev \in Known(p)
IsOn(p, j)      == Calls(p)[j].op = "on" /\ Calls(p)[j].ev \in Known(p)

\* call j is a trigger of a known event that has returned
Returned(p, j) == IsTrigger(p, j) /\ (j < Len(Calls(p)) \/ Pc(p) = "idle")

IsPrefix(s, t) == Len(s) <= Len(t) /\ SubSeq(t, 1, Len(s)) = s

(***************************************************************************)
(* Claims                                                                  *)
(***************************************************************************)

\* C1: in both registries and on every trigger path, a trigger of a known
\* event e that has returned has invoked exactly the callbacks registered by
\* the earlier on(e, _) calls, in registration order, each once; a trigger
\* still running has invoked a prefix of them; and invocations are never made
\* on behalf of a call other than the running one (the log is ordered by call).
C1_TriggerRunsRegisteredInOrder ==
  \A p \in Progs :
    /\ \A j \in 1..Len(Calls(p)) :
         /\ Returned(p, j) =>
              Segment(Log(p), j) = OnCbs(Calls(p), Calls(p)[j].ev, 0, j)
         /\ IsTrigger(p, j) =>
              IsPrefix(Segment(Log(p), j), OnCbs(Calls(p), Calls(p)[j].ev, 0, j))
    /\ \A i \in 1..Len(Log(p)) :
         /\ Log(p)[i].call \in 1..Len(Calls(p))
         /\ i > 1 => Log(p)[i - 1].call <= Log(p)[i].call

\* a returned text-path trigger of foo on the hana registry ran c2 then c1,
\* registered around an on(bar, _)
C1_Witness ==
  /\ prog = "hana"
  /\ hana_pc = "idle"
  /\ Len(hana_calls) = 4
  /\ hana_calls[1] = [op |-> "on", ev |-> "foo", cb |-> "c2", path |-> "id"]
  /\ hana_calls[2].op = "on" /\ hana_calls[2].ev = "bar"
  /\ hana_calls[3] = [op |-> "on", ev |-> "foo", cb |-> "c1", path |-> "id"]
  /\ hana_calls[4] = [op |-> "trigger", ev |-> "foo", cb |-> "", path |-> "text"]
  /\ Segment(hana_log, 4) = <<"c2", "c1">>

\* C2: a runtime.cpp trigger of a name outside the registry's key set aborts
\* with "trying to trigger an unknown event": it invokes no callback, does not
\* return, and is the last call the program makes.
C2_DynamicTriggerUnknownAborts ==
  \A j \in 1..Len(rt_calls) :
    (rt_calls[j].op = "trigger" /\ rt_calls[j].ev \notin ToSet(events)) =>
      /\ j = Len(rt_calls)
      /\ rt_pc = "aborted"
      /\ rt_diag = AssertTrigger
      /\ Segment(rt_log, j) = <<>>
      /\ ~ ENABLED (RtOn \/ RtTrigger \/ RtCallback \/ RtReturn)

\* trigger("unknown") aborted a registry that holds callbacks, after an
\* earlier trigger had run some
C2_Witness ==
  /\ prog = "runtime"
  /\ rt_pc = "aborted"
  /\ rt_diag = AssertTrigger
  /\ rt_calls[Len(rt_calls)].ev = "unknown"
  /\ Len(rt_log) = 1
  /\ \E e \in DOMAIN rt_map_ : rt_map_[e] # <<>>

\* C3: a runtime.cpp on of a name outside the key set aborts with "trying to
\* add a callback to an unknown event": the key set stays the constructed
\* one, every CallbackList holds exactly what the earlier on calls appended,
\* and no later call is made.
C3_DynamicOnUnknownAborts ==
  \A j \in 1..Len(rt_calls) :
    (rt_calls[j].op = "on" /\ rt_calls[j].ev \notin ToSet(events)) =>
      /\ j = Len(rt_calls)
      /\ rt_pc = "aborted"
      /\ rt_diag = AssertOn
      /\ DOMAIN rt_map_ = ToSet(events)
      /\ \A e \in ToSet(events) : rt_map_[e] = OnCbs(rt_calls, e, 0, j)

\* on("bar", c) aborted a registry built from foo, foo that already holds a
\* callback
C3_Witness ==
  /\ prog = "runtime"
  /\ events = <<"foo", "foo">>
  /\ rt_pc = "aborted"
  /\ rt_diag = AssertOn
  /\ rt_calls[Len(rt_calls)].ev = "bar"
  /\ rt_map_["foo"] # <<>>

\* C4: a hana.cpp trigger(std::string) of a text that is the text of no key
\* aborts with "trying to trigger an unknown event": it invokes no callback,
\* does not return, and no later call is made.
C4_StaticTextTriggerUnknownAborts ==
  \A j \in 1..Len(hana_calls) :
    (hana_calls[j].op = "trigger" /\ hana_calls[j].path = "text"
       /\ hana_calls[j].ev \notin {c_str(e) : e \in ToSet(Events)}) =>
      /\ j = Len(hana_calls)
      /\ hana_pc = "aborted"
      /\ hana_diag = AssertTrigger
      /\ Segment(hana_log, j) = <<>>
      /\ ~ ENABLED (HanaOn \/ HanaTrigger \/ HanaTriggerText \/ HanaCallback \/ HanaReturn)

\* trigger("unknown"s) aborted a hana registry that holds callbacks
C4_Witness ==
  /\ prog = "hana"
  /\ hana_pc = "aborted"
  /\ hana_diag = AssertTrigger
  /\ hana_calls[Len(hana_calls)].ev = "unknown"
  /\ hana_log # <<>>
  /\ \E e \in ToSet(Events) : hana_map_[main_events][e] # <<>>

\* C5: in the hana registry the text index entry of every key k is the
\* address of k's own vector in map_, so trigger(text of k) iterates the
\* very list that on(k, _) appends to and trigger(k) iterates; a running
\* text-path trigger iterates the vector of the key its text names.
C5_TextIndexDenotesSameList ==
  /\ \A e \in ToSet(Events) :
       /\ found(dynamic_[main_events], c_str(e))
       /\ dynamic_[main_events][c_str(e)] = AddressOf(main_events, e)
       /\ Deref(dynamic_[main_events][c_str(e)]) = hana_map_[main_events][e]
  /\ (hana_pc = "trigger" /\ hana_calls[Len(hana_calls)].path = "text") =>
       /\ hana_frame.ptr = AddressOf(main_events, KeyOf(hana_calls[Len(hana_calls)].ev))
       /\ hana_frame.end = Len(hana_map_[main_events][KeyOf(hana_calls[Len(hana_calls)].ev)])

\* trigger("bar"s) is iterating bar's two callbacks, registered through
\* on("bar"_s, _), while foo holds a different list
C5_Witness ==
  /\ prog = "hana"
  /\ hana_pc = "trigger"
  /\ hana_calls[Len(hana_calls)].path = "text"
  /\ hana_calls[Len(hana_calls)].ev = "bar"
  /\ hana_frame.it = 3
  /\ Segment(hana_log, Len(hana_calls)) = <<"c1", "c2">>
  /\ hana_map_[main_events][Foo] = <<"c2">>

\* C6: the key set of a registry is the one given at construction in every
\* state, after successful and failing calls alike: the keys of runtime.cpp's
\* map_, of hana.cpp's map_ and of its text index never change.
C6_KeySetFixed ==
  /\ DOMAIN rt_map_ = ToSet(events)
  /\ DOMAIN hana_map_[main_events] = ToSet(Events)
  /\ DOMAIN dynamic_[main_events] = {c_str(e) : e \in ToSet(Events)}

\* after callbacks were added and trigger("unknown") failed, the runtime.cpp
\* registry still has its two keys
C6_Witness ==
  /\ prog = "runtime"
  /\ rt_pc = "aborted"
  /\ rt_diag = AssertTrigger
  /\ Len(rt_calls) = 4
  /\ Cardinality(DOMAIN rt_map_) = 2
  /\ Len(rt_map_["bar"]) = 2

\* C7: for two returned triggers of the same known event, the later one
\* invoked what the earlier one invoked, in the same order, followed by the
\* callbacks registered on that event between the two (nothing else when
\* they are in succession); and a callback registered after a trigger
\* returned has no invocation in that trigger.
C7_RepeatedTriggerSameOrder ==
  \A p \in Progs :
    \A j \in 1..Len(Calls(p)) :
      Returned(p, j) =>
        /\ \A m \in (j + 1)..Len(Calls(p)) :
             (Returned(p, m) /\ Calls(p)[m].ev = Calls(p)[j].ev) =>
               Segment(Log(p), m) =
                 Segment(Log(p), j) \o OnCbs(Calls(p), Calls(p)[j].ev, j, m)
        /\ \A r \in (j + 1)..Len(Calls(p)) :
             (IsOn(p, r) /\ Calls(p)[r].ev = Calls(p)[j].ev) =>
               Len(Segment(Log(p), j)) < Len(OnCbs(Calls(p), Calls(p)[r].ev, 0, r + 1))

\* runtime.cpp: on(foo, c1), trigger(foo), on(foo, c2), trigger(foo): the
\* first trigger ran c1, the second c1 then c2
C7_Witness ==
  /\ prog = "runtime"
  /\ rt_pc = "idle"
  /\ Len(rt_calls) = 4
  /\ rt_calls[2].op = "trigger" /\ rt_calls[2].ev = "foo"
  /\ rt_calls[3].op = "on" /\ rt_calls[3].ev = "foo"
  /\ rt_calls[4].op = "trigger" /\ rt_calls[4].ev = "foo"
  /\ Segment(rt_log, 2) = <<"c1">>
  /\ Segment(rt_log, 4) = <<"c1", "c2">>

\* C8: driven by the same on and trigger calls on known events, the hana
\* registry through either trigger overload, the two registries make the
\* same callback invocations in the same order, hold equal CallbackLists for
\* every event, and are at the same point of the same call, in every state.
C8_RegistriesInterchangeable ==
  prog = "pair" =>
    /\ rt_log = hana_log
    /\ rt_pc = hana_pc
    /\ rt_pc # "aborted"
    /\ DOMAIN rt_map_ = {c_str(e) : e \in ToSet(Events)}
    /\ \A e \in ToSet(Events) : rt_map_[c_str(e)] = hana_map_[main_events][e]
    /\ Len(rt_calls) = Len(hana_calls)
    /\ \A j \in 1..Len(rt_calls) :
         /\ rt_calls[j].op = hana_calls[j].op
         /\ rt_calls[j].ev = hana_calls[j].ev
         /\ rt_calls[j].cb = hana_calls[j].cb

\* both registries ran c1, c2 twice: the hana one once through
\* trigger(std::string) and once through trigger(Event)
C8_Witness ==
  /\ prog = "pair"
  /\ rt_pc = "idle"
  /\ Len(hana_calls) = 4
  /\ hana_calls[3].path = "text"
  /\ hana_calls[4].path = "id"
  /\ [i \in 1..Len(rt_log) |-> rt_log[i].cb] = <<"c1", "c2", "c1", "c2">>
  /\ [i \in 1..Len(hana_log) |-> hana_log[i].cb] = <<"c1", "c2", "c1", "c2">>

\* the place in its event's CallbackList that registration r took
Slot(p, r) == Len(OnCbs(Calls(p), Calls(p)[r].ev, 0, r + 1))

\* how often the callback registered by call r has been invoked
Invoked(p, r) ==
  Cardinality({i \in 1..Len(Log(p)) :
                 Log(p)[i].key = Calls(p)[r].ev /\ Log(p)[i].pos = Slot(p, r)})

\* the triggers of registration r's event made after r
TriggersAfter(p, r) ==
  {j \in (r + 1)..Len(Calls(p)) : IsTrigger(p, j) /\ Calls(p)[j].ev = Calls(p)[r].ev}

\* C9: every invocation made by a trigger(e) call is of a callback in e's
\* list, the one registered at that place; and whenever no trigger is
\* running, each registration on e has been invoked once per trigger(e)
\* made after it, so callbacks of a never-triggered event are never invoked.
C9_OnlyOwnCallbacksCounted ==
  \A p \in Progs :
    /\ \A i \in 1..Len(Log(p)) :
         /\ Log(p)[i].key = Calls(p)[Log(p)[i].call].ev
         /\ Log(p)[i].pos \in 1..Len(OnCbs(Calls(p), Log(p)[i].key, 0, Log(p)[i].call))
         /\ Log(p)[i].cb = OnCbs(Calls(p), Log(p)[i].key, 0, Log(p)[i].call)[Log(p)[i].pos]
    /\ Pc(p) # "trigger" =>
         \A r \in 1..Len(Calls(p)) :
           IsOn(p, r) => Invoked(p, r) = Cardinality(TriggersAfter(p, r))

\* hana.cpp: c1 on foo and c1 on bar, then foo triggered twice: foo's
\* registration was invoked twice, bar's never
C9_Witness ==
  /\ prog = "hana"
  /\ hana_pc = "idle"
  /\ Len(hana_calls) = 4
  /\ hana_calls[1] = [op |-> "on", ev |-> "foo", cb |-> "c1", path |-> "id"]
  /\ hana_calls[2] = [op |-> "on", ev |-> "bar", cb |-> "c1", path |-> "id"]
  /\ Invoked("hana", 1) = 2
  /\ Invoked("hana", 2) = 0
  /\ Len(hana_log) = 2

FrameIt(p)  == IF p = "runtime" THEN rt_frame.it ELSE hana_frame.it
FrameEnd(p) == IF p = "runtime" THEN rt_frame.end ELSE hana_frame.end

KeySetIntact(p) ==
  IF p = "runtime" THEN DOMAIN rt_map_ = ToSet(events)
  ELSE DOMAIN hana_map_[main_events] = ToSet(Events)

\* C10: a trigger of a known event on which nothing has been registered
\* invokes no callback and does not abort; while it is the latest call, its
\* loop is already at its end, the log holds only invocations of earlier
\* calls, and the key set and every CallbackList are as the earlier on calls
\* left them.
C10_TriggerEmptyIsNoOp ==
  \A p \in Progs :
    \A j \in 1..Len(Calls(p)) :
      (IsTrigger(p, j) /\ OnCbs(Calls(p), Calls(p)[j].ev, 0, j) = <<>>) =>
        /\ Segment(Log(p), j) = <<>>
        /\ j = Len(Calls(p)) =>
             /\ Pc(p) \in {"trigger", "idle"}
             /\ Diag(p) = ""
             /\ Pc(p) = "trigger" => FrameIt(p) > FrameEnd(p)
             /\ \A i \in 1..Len(Log(p)) : Log(p)[i].call < j
             /\ KeySetIntact(p)
             /\ \A e \in Known(p) : List(p, e) = OnCbs(Calls(p), e, 0, j)

\* hana.cpp: trigger("bar"_s) returned with nothing registered on bar, after
\* a trigger of foo had run foo's callback
C10_Witness ==
  /\ prog = "hana"
  /\ hana_pc = "idle"
  /\ Len(hana_calls) = 3
  /\ hana_calls[3] = [op |-> "trigger", ev |-> "bar", cb |-> "", path |-> "id"]
  /\ hana_map_[main_events][Bar] = <<>>
  /\ hana_map_[main_events][Foo] # <<>>
  /\ Len(hana_log) = 1

\* C11: on the identifier path of the hana registry no call names an
\* identifier outside the fixed set: whenever the program is between calls,
\* on("unknown"_s, _) and trigger("unknown"_s) cannot be made (the
\* static_assert rejects the program that contains them) while on(e, _) can
\* for every e of the set; every identifier call in the history names a key;
\* and an on call never ends in a failed assert.
C11_IdentifierPathCheckedAtBuild ==
  /\ \A j \in 1..Len(hana_calls) :
       /\ hana_calls[j].path = "id" =>
            hana_calls[j].ev \in {c_str(e) : e \in ToSet(Events)}
       /\ hana_calls[j].op = "on" =>
            /\ hana_calls[j].path = "id"
            /\ hana_diag # AssertOn
            /\ ~ (j = Len(hana_calls) /\ hana_pc = "aborted")
  /\ (prog = "hana" /\ hana_pc = "idle" /\ Len(hana_calls) < MaxCalls) =>
       \A c \in Callbacks :
         /\ ~ ENABLED hana_on(Unknown, c)
         /\ ~ ENABLED hana_trigger(Unknown)
         /\ \A e \in ToSet(Events) : ENABLED hana_on(e, c)

\* two on calls through identifiers have succeeded, and on("unknown"_s, c1)
\* is still not a call the program can make
C11_Witness ==
  /\ prog = "hana"
  /\ hana_pc = "idle"
  /\ Len(hana_calls) = 2
  /\ hana_calls[1].op = "on" /\ hana_calls[2].op = "on"
  /\ hana_map_[main_events][Foo] = <<"c1">>
  /\ hana_map_[main_events][Bar] = <<"c2">>
  /\ ~ ENABLED hana_on(Unknown, "c1")

\* what a step taken while runtime.cpp's trigger runs may be: the invocation
\* of the next callback of the list, or the return once all have been invoked
RtTriggerStep ==
  rt_pc = "trigger" =>
    /\ rt_calls' = rt_calls
    /\ rt_map_' = rt_map_
    /\ \/ /\ rt_pc' = "trigger"
          /\ rt_frame.it <= rt_frame.end
          /\ rt_frame' = [rt_frame EXCEPT !.it = @ + 1]
          /\ Len(rt_log') = Len(rt_log) + 1
          /\ SubSeq(rt_log', 1, Len(rt_log)) = rt_log
          /\ rt_log'[Len(rt_log')].cb = rt_map_[rt_frame.key][rt_frame.it]
       \/ /\ rt_pc' = "idle"
          /\ rt_frame.it = rt_frame.end + 1
          /\ rt_frame.end = Len(rt_map_[rt_frame.key])
          /\ rt_log' = rt_log

\* the same for either trigger overload of hana.cpp
HanaTriggerStep ==
  hana_pc = "trigger" =>
    /\ hana_calls' = hana_calls
    /\ hana_map_' = hana_map_
    /\ \/ /\ hana_pc' = "trigger"
          /\ hana_frame.it <= hana_frame.end
          /\ hana_frame' = [hana_frame EXCEPT !.it = @ + 1]
          /\ Len(hana_log') = Len(hana_log) + 1
          /\ SubSeq(hana_log', 1, Len(hana_log)) = hana_log
          /\ hana_log'[Len(hana_log')].cb =
                hana_map_[main_events][hana_frame.ptr.key][hana_frame.it]
       \/ /\ hana_pc' = "idle"
          /\ hana_frame.it = hana_frame.end + 1
          /\ hana_frame.end = Len(hana_map_[main_events][hana_frame.ptr.key])
          /\ hana_log' = hana_log

\* C12: every trigger of a known event returns (callbacks return and do not
\* call into the registry), and from its first step to its return the only
\* steps taken are the invocations of its list's callbacks, one after the
\* other, all of them: no on or trigger call starts in between and the
\* registry is not changed.
C12_TriggerRunsToCompletion ==
  /\ (rt_pc = "trigger") ~> (rt_pc = "idle")
  /\ (hana_pc = "trigger") ~> (hana_pc = "idle")
  /\ [][RtTriggerStep /\ HanaTriggerStep]_vars

\* runtime.cpp's trigger is between the first and the second callback of a
\* two-callback list
C12_Witness ==
  /\ prog = "runtime"
  /\ rt_pc = "trigger"
  /\ rt_frame.it = 2
  /\ rt_frame.end = 2
  /\ Len(rt_log) = 1

\* C13: every entry of a hana registry object's text index points to a
\* vector of that same object's map_, for every registry object there is,
\* copies included.
C13_IndexOwnedByHolder ==
  \A o \in DOMAIN dynamic_ :
    \A t \in DOMAIN dynamic_[o] :
      /\ dynamic_[o][t].obj = o
      /\ dynamic_[o][t].key \in DOMAIN hana_map_[o]

\* a step that is a successful on call of runtime.cpp appends the callback
\* to the named event's list and changes nothing else
RtOnStep ==
  (/\ Len(rt_calls') = Len(rt_calls) + 1
   /\ rt_calls'[Len(rt_calls')].op = "on"
   /\ rt_pc' # "aborted") =>
    LET c == rt_calls'[Len(rt_calls')] IN
      /\ c.ev \in DOMAIN rt_map_
      /\ DOMAIN rt_map_' = DOMAIN rt_map_
      /\ rt_map_'[c.ev] = Append(rt_map_[c.ev], c.cb)
      /\ \A e \in DOMAIN rt_map_ \ {c.ev} : rt_map_'[e] = rt_map_[e]
      /\ rt_log' = rt_log
      /\ rt_pc' = "idle"

\* the same for hana.cpp, whose text index is not touched either
HanaOnStep ==
  (/\ Len(hana_calls') = Len(hana_calls) + 1
   /\ hana_calls'[Len(hana_calls')].op = "on") =>
    LET c == hana_calls'[Len(hana_calls')]
        m == hana_map_[main_events]
    IN
      /\ c.ev \in {c_str(e) : e \in DOMAIN m}
      /\ DOMAIN hana_map_' = DOMAIN hana_map_
      /\ DOMAIN hana_map_'[main_events] = DOMAIN m
      /\ hana_map_'[main_events][KeyOf(c.ev)] = Append(m[KeyOf(c.ev)], c.cb)
      /\ \A e \in DOMAIN m \ {KeyOf(c.ev)} : hana_map_'[main_events][e] = m[e]
      /\ dynamic_' = dynamic_
      /\ hana_log' = hana_log
      /\ hana_pc' = "idle"

\* C14: a successful on(e, c) appends c at the end of e's CallbackList: the
\* list's previous contents stay in front of it, every other event's list
\* and the key set are unchanged, and no callback is invoked.
C14_OnAppendsOnly == [][RtOnStep /\ HanaOnStep]_vars

\* runtime.cpp: on(foo, c2) has just put c2 behind c1 in foo's list, bar's
\* list still holds its one callback, and nothing has been invoked
C14_Witness ==
  /\ prog = "runtime"
  /\ rt_pc = "idle"
  /\ Len(rt_calls) = 3
  /\ rt_calls[3] = [op |-> "on", ev |-> "foo", cb |-> "c2", path |-> "text"]
  /\ DOMAIN rt_map_ = {"foo", "bar"}
  /\ rt_map_["foo"] = <<"c1", "c2">>
  /\ rt_map_["bar"] = <<"c1">>
  /\ rt_log = <<>>

\* a step that starts, continues or ends a trigger of a known event writes
\* neither map_ nor the text index
TriggerStepKeepsRegistry ==
  /\ (rt_pc = "trigger" \/ rt_pc' = "trigger") => rt_map_' = rt_map_
  /\ (hana_pc = "trigger" \/ hana_pc' = "trigger") =>
       (hana_map_' = hana_map_ /\ dynamic_' = dynamic_)

\* while a trigger of a known event is the latest call, running or returned,
\* the key set and every list are what the on calls before it made them
AfterTriggerAsBefore ==
  \A p \in Progs :
    (Len(Calls(p)) > 0 /\ IsTrigger(p, Len(Calls(p)))) =>
      /\ KeySetIntact(p)
      /\ \A e \in Known(p) : List(p, e) = OnCbs(Calls(p), e, 0, Len(Calls(p)))

\* C15: a successful trigger(e) does not modify the registry: none of its
\* steps writes map_ or the text index, and after it returns the key set and
\* every CallbackList, e's included, are as they were before the call.
C15_TriggerLeavesRegistry ==
  /\ []AfterTriggerAsBefore
  /\ [][TriggerStepKeepsRegistry]_vars

\* hana.cpp: trigger("foo"s) has returned after running c1 and c2, and foo's
\* list still holds both
C15_Witness ==
  /\ prog = "hana"
  /\ hana_pc = "idle"
  /\ Len(hana_calls) = 3
  /\ hana_calls[3] = [op |-> "trigger", ev |-> "foo", cb |-> "", path |-> "text"]
  /\ Segment(hana_log, 3) = <<"c1", "c2">>
  /\ hana_map_[main_events][Foo] = <<"c1", "c2">>

\* C16: a runtime.cpp registry constructed from a list that repeats a name
\* is constructed without failure: its keys are the distinct names, each
\* with one list, empty until on is called (the constructor's result is the
\* same as for the list without the repetition), and the registry then
\* behaves as any other: each list holds what was registered under its name.
C16_DuplicateNamesCollapse ==
  (prog = "runtime" /\ Cardinality(ToSet(events)) < Len(events)) =>
    /\ DOMAIN rt_map_ = ToSet(events)
    /\ rt_event_system(events) = [e \in ToSet(events) |-> <<>>]
    /\ rt_calls = <<>> =>
         /\ rt_pc = "idle"
         /\ rt_diag = ""
         /\ rt_map_ = rt_event_system(events)
    /\ \A e \in ToSet(events) : rt_map_[e] = OnCbs(rt_calls, e, 0, Len(rt_calls) + 1)

\* the registry built from foo, foo has the one key foo; c1 registered on it
\* once was invoked once by trigger(foo)
C16_Witness ==
  /\ prog = "runtime"
  /\ events = <<"foo", "foo">>
  /\ DOMAIN rt_map_ = {"foo"}
  /\ rt_pc = "idle"
  /\ Len(rt_calls) = 2
  /\ rt_calls[2].op = "trigger"
  /\ rt_map_["foo"] = <<"c1">>
  /\ Len(rt_log) = 1

\* how often x occurs in the sequence s
Count(s, x) == Cardinality({i \in 1..Len(s) : s[i] = x})

\* the on(e, c) calls among the first n calls of program p
OnCalls(p, e, c, n) ==
  {r \in 1..n : Calls(p)[r].op = "on" /\ Calls(p)[r].ev = e /\ Calls(p)[r].cb = c}

\* C17: registration does not deduplicate: every on(e, c) call has its own
\* place in e's list, holding c, so the list holds c as often as on(e, c) was
\* called, whatever was registered on other events; and a returned
\* trigger(e) has invoked c as often as on(e, c) had been called before it.
C17_NoDeduplication ==
  \A p \in Progs :
    /\ \A r \in 1..Len(Calls(p)) :
         IsOn(p, r) =>
           /\ Slot(p, r) <= Len(List(p, Calls(p)[r].ev))
           /\ List(p, Calls(p)[r].ev)[Slot(p, r)] = Calls(p)[r].cb
    /\ \A e \in Known(p) :
         \A c \in Callbacks :
           /\ Count(List(p, e), c) = Cardinality(OnCalls(p, e, c, Len(Calls(p))))
           /\ \A j \in 1..Len(Calls(p)) :
                (Returned(p, j) /\ Calls(p)[j].ev = e) =>
                  Count(Segment(Log(p), j), c) = Cardinality(OnCalls(p, e, c, j))

\* hana.cpp: c1 registered twice on foo and once on bar; trigger("foo"_s)
\* invoked it twice, and bar's list holds its own single c1
C17_Witness ==
  /\ prog = "hana"
  /\ hana_pc = "idle"
  /\ Len(hana_calls) = 4
  /\ hana_calls[4] = [op |-> "trigger", ev |-> "foo", cb |-> "", path |-> "id"]
  /\ hana_map_[main_events][Foo] = <<"c1", "c1">>
  /\ hana_map_[main_events][Bar] = <<"c1">>
  /\ Segment(hana_log, 4) = <<"c1", "c1">>

\* the run of runtime.cpp has ended in trigger's assert
AbortedInTrigger == rt_pc = "aborted" /\ rt_diag = AssertTrigger

\* what the earlier calls did is all there in the aborted state
EarlierWorkStands ==
  AbortedInTrigger =>
    /\ \A j \in 1..(Len(rt_calls) - 1) :
         IsTrigger("runtime", j) =>
           Segment(rt_log, j) = OnCbs(rt_calls, rt_calls[j].ev, 0, j)
    /\ \A i \in 1..Len(rt_log) :
         /\ rt_log[i].call < Len(rt_calls)
         /\ i > 1 => rt_log[i - 1].call <= rt_log[i].call
    /\ \A e \in DOMAIN rt_map_ : rt_map_[e] = OnCbs(rt_calls, e, 0, Len(rt_calls) + 1)

\* the aborting step adds no invocation and changes no list, invocations once
\* made stay made, and no step leaves the aborted state
AbortStep ==
  /\ rt_pc # "aborted"
  /\ IsPrefix(rt_log, rt_log')
  /\ (rt_pc' = "aborted" /\ rt_diag' = AssertTrigger) =>
       /\ rt_log' = rt_log
       /\ rt_map_' = rt_map_
       /\ rt_calls'[Len(rt_calls')].op = "trigger"
       /\ rt_calls'[Len(rt_calls')].ev \notin DOMAIN rt_map_

\* C18: when a runtime.cpp trigger of an unknown name aborts the run, every
\* earlier trigger has made all its invocations, in registration order and
\* call after call, the lists hold every registration, the abort itself
\* invokes and changes nothing, and nothing happens after it.
C18_AbortKeepsEarlierWork ==
  /\ []EarlierWorkStands
  /\ [][AbortStep]_vars

\* runtime.cpp: on("foo", c1), on("foo", c2), trigger("foo") ran both, then
\* trigger("unknown") aborted
C18_Witness ==
  /\ prog = "runtime"
  /\ AbortedInTrigger
  /\ Len(rt_calls) = 4
  /\ rt_calls[3] = [op |-> "trigger", ev |-> "foo", cb |-> "", path |-> "text"]
  /\ rt_calls[4].ev = "unknown"
  /\ Segment(rt_log, 3) = <<"c1", "c2">>
  /\ rt_map_["foo"] = <<"c1", "c2">>

====
